---- MODULE Spec2Model ----
(***************************************************************************)
(* Model of grinder's copy-on-write host Tensor (src/src/tensor/host.rs)   *)
(* on top of its buffers (src/src/buffer.rs), and of Location equality.    *)
(*                                                                         *)
(* A Tensor is a shape plus an Rc<Buffer>.  The Rc allocations are kept in *)
(* `heap` (one cell per allocation: the strong count and the buffer's      *)
(* vector); `tensors` holds the Tensor values the caller owns.             *)
(***************************************************************************)
EXTENDS Integers, Sequences, FiniteSets

VARIABLES tensors, heap, last, locs, cmp

vars == <<tensors, heap, last, locs, cmp>>
tvars == <<tensors, heap, last>>
lvars == <<locs, cmp>>

----------------------------------------------------------------------------
(* Bounds *)

\* number of Tensor values the caller holds at once
MaxTensors == 2
\* largest element count of a buffer
MaxLen == 1
\* number of Location values the caller holds at once
MaxLocs == 3
\* number of device command queues
MaxQueues == 2

\* T::zero() of the element type
Zero == 0
\* element values (T: Prm)
Values == {0, 1}

TensorIds == 1 .. MaxTensors
BufferIds == 1 .. MaxTensors

RECURSIVE Product(_)
\* shape.iter().product(): the empty product is 1
Product(s) == IF s = <<>> THEN 1 ELSE Head(s) * Product(Tail(s))

\* shapes a caller passes: the scalar shape and the one-dimensional ones
Shapes == {<<>>} \cup {<<n>> : n \in 0 .. MaxLen}
\* sources a caller hands to store
Slices == UNION {[1 .. n -> Values] : n \in 0 .. MaxLen}
ZeroSlice(n) == [i \in 1 .. n |-> Zero]

----------------------------------------------------------------------------
(* Buffers *)

\* HostBuffer::new_filled: vec.resize(len, value)
BufNewFilled(len, value) == [i \in 1 .. len |-> value]

\* HostBuffer::new_uninit: with_capacity + set_len leaves the elements
\* unspecified: any contents of that length
BufNewUninit(len) == [1 .. len -> Values]

\* Buffer::len
BufLen(vec) == Len(vec)

\* Buffer::clone: a new buffer with the same elements
BufClone(vec) == vec

\* Buffer::load: copies the elements into a destination of matching length
BufLoad(vec, dst) ==
    IF Len(dst) = Len(vec)
    THEN [res |-> "Ok", dst |-> vec]
    ELSE [res |-> "SizeMismatch", dst |-> dst]

\* Buffer::store: overwrites the elements from a source of matching length
BufStore(vec, src) ==
    IF Len(src) = Len(vec)
    THEN [res |-> "Ok", vec |-> src]
    ELSE [res |-> "SizeMismatch", vec |-> vec]

----------------------------------------------------------------------------
(* Rc<Buffer> *)

FreeCell == [alloc |-> FALSE, strong |-> 0, vec |-> <<>>]

FreeBuffers(h) == {b \in BufferIds : ~h[b].alloc}
NewBufferId(h) == CHOOSE b \in FreeBuffers(h) : \A c \in FreeBuffers(h) : b <= c

\* Rc::new: a fresh allocation with strong count 1
RcNew(h, vec) == [h EXCEPT ![NewBufferId(h)] = [alloc |-> TRUE, strong |-> 1, vec |-> vec]]

\* Rc::clone: one more owner of the same allocation
RcClone(h, b) == [h EXCEPT ![b].strong = @ + 1]

\* mutant: the last owner's drop leaves the allocation behind
RcDropLeak(h, b) == [h EXCEPT ![b].strong = @ - 1]

\* drop of an Rc: the last owner releases the buffer
RcDrop(h, b) ==
    IF h[b].strong = 1
    THEN [h EXCEPT ![b] = FreeCell]
    ELSE [h EXCEPT ![b].strong = @ - 1]

\* mutant: hands out the shared allocation itself
MakeMutInPlace(h, b) == [heap |-> h, buf |-> b, cow |-> FALSE, target |-> b]

\* mutant: clones and redirects, but hands out the old allocation
MakeMutStale(h, b) ==
    IF h[b].strong = 1
    THEN [heap |-> h, buf |-> b, cow |-> FALSE, target |-> b]
    ELSE LET n == NewBufferId(h)
         IN [heap |-> RcDrop(RcNew(h, BufClone(h[b].vec)), b), buf |-> n,
             cow |-> TRUE, target |-> b]

\* mutant: the clone path keeps the old Rc alive
MakeMutNoDrop(h, b) ==
    IF h[b].strong = 1
    THEN [heap |-> h, buf |-> b, cow |-> FALSE, target |-> b]
    ELSE LET n == NewBufferId(h)
         IN [heap |-> RcNew(h, BufClone(h[b].vec)), buf |-> n,
             cow |-> TRUE, target |-> n]

\* Rc::make_mut: the allocation itself when this is its only owner,
\* otherwise a clone of the buffer in a new allocation that replaces this
\* owner's Rc (which drops the old one).  buf is the owner's allocation
\* afterwards, target the one the returned &mut refers to.
MakeMut(h, b) ==
    IF h[b].strong = 1
    THEN [heap |-> h, buf |-> b, cow |-> FALSE, target |-> b]
    ELSE LET n == NewBufferId(h)
         IN [heap |-> RcDrop(RcNew(h, BufClone(h[b].vec)), b), buf |-> n,
             cow |-> TRUE, target |-> n]

----------------------------------------------------------------------------
(* Tensor *)

NoTensor == [live |-> FALSE, shape |-> <<>>, buffer |-> 0]

Live == {t \in TensorIds : tensors[t].live}
FreeTensors == TensorIds \ Live
NewTensorId == CHOOSE t \in FreeTensors : \A u \in FreeTensors : t <= u

\* live Tensors that reference allocation b
Owners(b) == {t \in Live : tensors[t].buffer = b}

Running == last.res # "Panic"

\* what the caller sees of the last call: the operation, its receiver t, its
\* arguments (shape, fill value v, source slice src), the Tensor u it
\* returned, the result, whether make_mut cloned, and the destination slice
\* after a load
Outcome(op, t, shape, v, src, u, res, cow, dst) ==
    [op |-> op, t |-> t, shape |-> shape, v |-> v, src |-> src,
     u |-> u, res |-> res, cow |-> cow, dst |-> dst]

\* mutant: no length check
FromSharedBufferUnchecked(h, b, shape) ==
    [res |-> "Ok", tensor |-> [live |-> TRUE, shape |-> shape, buffer |-> b]]

\* Tensor::from_shared_buffer: assert_eq!(rc_buffer.len(), product(shape))
FromSharedBuffer(h, b, shape) ==
    IF BufLen(h[b].vec) = Product(shape)
    THEN [res |-> "Ok", tensor |-> [live |-> TRUE, shape |-> shape, buffer |-> b]]
    ELSE [res |-> "Panic", tensor |-> NoTensor]

\* Tensor::from_buffer: Rc::new(buffer), then from_shared_buffer
FromBuffer(op, vec, shape, v) ==
    LET u == NewTensorId
        b == NewBufferId(heap)
        h == RcNew(heap, vec)
        r == FromSharedBuffer(h, b, shape)
    IN /\ Running
       /\ FreeTensors # {}
       /\ IF r.res = "Ok"
          THEN /\ tensors' = [tensors EXCEPT ![u] = r.tensor]
               /\ heap' = h
               /\ last' = Outcome(op, 0, shape, v, <<>>, u, "Ok", FALSE, <<>>)
          ELSE /\ UNCHANGED <<tensors, heap>>
               /\ last' = Outcome(op, 0, shape, v, <<>>, 0, "Panic", FALSE, <<>>)
       /\ UNCHANGED lvars

\* Tensor::new_uninit
NewUninit(shape) ==
    \E vec \in BufNewUninit(Product(shape)) : FromBuffer("new_uninit", vec, shape, Zero)

\* mutant: the fill value is dropped
NewFilledAsZero(op, shape, value) ==
    FromBuffer(op, BufNewFilled(Product(shape), Zero), shape, value)

\* Tensor::new_filled (op names the entry point the caller used)
NewFilledAs(op, shape, value) ==
    FromBuffer(op, BufNewFilled(Product(shape), value), shape, value)

NewFilled(shape, value) == NewFilledAs("new_filled", shape, value)

\* Tensor::new_zeroed: new_filled(shape, T::zero())
NewZeroed(shape) == NewFilledAs("new_zeroed", shape, Zero)

\* mutant: the new Tensor gets a copy of the data (as Vec::clone would)
ReshapeBufferCopy(h, b) == [heap |-> RcNew(h, BufClone(h[b].vec)), buf |-> NewBufferId(h)]

\* self.buffer.clone() in reshape: the same allocation, one more owner
ReshapeBuffer(h, b) == [heap |-> RcClone(h, b), buf |-> b]

\* Tensor::reshape: from_shared_buffer(self.buffer.clone(), shape); when the
\* assertion fails the cloned Rc is dropped again by the unwinding
Reshape(t, shape) ==
    LET rb == ReshapeBuffer(heap, tensors[t].buffer)
        r == FromSharedBuffer(rb.heap, rb.buf, shape)
    IN /\ Running
       /\ t \in Live
       /\ IF r.res = "Ok"
          THEN /\ FreeTensors # {}
               /\ tensors' = [tensors EXCEPT ![NewTensorId] = r.tensor]
               /\ heap' = rb.heap
               /\ last' = Outcome("reshape", t, shape, Zero, <<>>, NewTensorId, "Ok",
                                  FALSE, <<>>)
          ELSE /\ tensors' = tensors
               /\ heap' = RcDrop(rb.heap, rb.buf)
               /\ last' = Outcome("reshape", t, shape, Zero, <<>>, 0, "Panic",
                                  FALSE, <<>>)
       /\ UNCHANGED lvars

\* Tensor::load: self.buffer.load(dst); the call is a statement, so the
\* caller gets () whatever the buffer answered
Load(t, dst) ==
    LET r == BufLoad(heap[tensors[t].buffer].vec, dst)
    IN /\ Running
       /\ t \in Live
       /\ last' = Outcome("load", t, <<>>, Zero, <<>>, 0, "Unit", FALSE, r.dst)
       /\ UNCHANGED <<tensors, heap>>
       /\ UNCHANGED lvars

\* Tensor::store: Rc::make_mut(&mut self.buffer).store(src); the call is a
\* statement, so the caller gets () whatever the buffer answered
Store(t, src) ==
    LET b == tensors[t].buffer
        m == MakeMut(heap, b)
        r == BufStore(m.heap[m.target].vec, src)
    IN /\ Running
       /\ t \in Live
       /\ tensors' = [tensors EXCEPT ![t].buffer = m.buf]
       /\ heap' = [m.heap EXCEPT ![m.target].vec = r.vec]
       /\ last' = Outcome("store", t, <<>>, Zero, src, 0, "Unit", m.cow, <<>>)
       /\ UNCHANGED lvars

\* a Tensor going out of scope: its fields are dropped, the Rc among them
Drop(t) ==
    /\ Running
    /\ t \in Live
    /\ tensors' = [tensors EXCEPT ![t] = NoTensor]
    /\ heap' = RcDrop(heap, tensors[t].buffer)
    /\ last' = Outcome("drop", t, <<>>, Zero, <<>>, 0, "Unit", FALSE, <<>>)
    /\ UNCHANGED lvars

TensorInit ==
    /\ tensors = [t \in TensorIds |-> NoTensor]
    /\ heap = [b \in BufferIds |-> FreeCell]
    /\ last = Outcome("none", 0, <<>>, Zero, <<>>, 0, "Unit", FALSE, <<>>)

\* the element counts a caller tries on a Tensor of n elements: n itself,
\* one short and one long
Lens(n) == {n - 1, n, n + 1} \cap (0 .. MaxLen)

\* sources a caller hands to store on Tensor t: every slice of its element
\* count, and a zero slice one element short and one element long
Srcs(t) ==
    LET n == BufLen(heap[tensors[t].buffer].vec)
    IN {src \in Slices : Len(src) = n} \cup {ZeroSlice(k) : k \in Lens(n)}

\* destinations a caller hands to load on Tensor t: zero-initialised, of
\* its element count, one short and one long
Dsts(t) == {ZeroSlice(k) : k \in Lens(BufLen(heap[tensors[t].buffer].vec))}

TensorNext ==
    \/ \E shape \in Shapes : NewUninit(shape)
    \/ \E shape \in Shapes, value \in Values : NewFilled(shape, value)
    \/ \E shape \in Shapes : NewZeroed(shape)
    \/ \E t \in TensorIds, shape \in Shapes : Reshape(t, shape)
    \/ \E t \in Live : \E dst \in Dsts(t) : Load(t, dst)
    \/ \E t \in Live : \E src \in Srcs(t) : Store(t, src)
    \/ \E t \in TensorIds : Drop(t)

----------------------------------------------------------------------------
(* Location *)

LocIds == 1 .. MaxLocs
\* as_ptr() of a queue handle: the underlying command queue
QueuePtrs == 1 .. MaxQueues

NoLocation == [tag |-> "None", ptr |-> 0]
\* Location::Host
Host == [tag |-> "Host", ptr |-> 0]
\* Location::Device(queue): the handle is known by the queue it points to
Device(q) == [tag |-> "Device", ptr |-> q]

\* mutant: compares the variants only
LocEqByVariant(a, b) == a.tag = b.tag

\* impl PartialEq for Location
LocEq(a, b) ==
    IF a.tag = "Host"
    THEN (IF b.tag = "Host" THEN TRUE ELSE FALSE)
    ELSE (IF b.tag = "Device" THEN a.ptr = b.ptr ELSE FALSE)

NoCmp == [a |-> 0, b |-> 0, eq |-> FALSE]

HeldLocs == {i \in LocIds : locs[i] # NoLocation}

\* the caller builds Location::Host
LocHost(i) ==
    /\ locs' = [locs EXCEPT ![i] = Host]
    /\ cmp' = NoCmp
    /\ UNCHANGED tvars

\* the caller builds Location::Device from a handle of queue q
LocDevice(i, q) ==
    /\ locs' = [locs EXCEPT ![i] = Device(q)]
    /\ cmp' = NoCmp
    /\ UNCHANGED tvars

\* #[derive(Clone)]: cloning a queue handle keeps the queue it points to
LocClone(i, j) ==
    /\ i \in HeldLocs
    /\ i # j
    /\ locs' = [locs EXCEPT ![j] = [tag |-> locs[i].tag, ptr |-> locs[i].ptr]]
    /\ cmp' = NoCmp
    /\ UNCHANGED tvars

\* a == b on two Locations the caller holds
LocCompare(i, j) ==
    /\ i \in HeldLocs
    /\ j \in HeldLocs
    /\ cmp' = [a |-> i, b |-> j, eq |-> LocEq(locs[i], locs[j])]
    /\ UNCHANGED locs
    /\ UNCHANGED tvars

LocInit ==
    /\ locs = [i \in LocIds |-> NoLocation]
    /\ cmp = NoCmp

LocNext ==
    \/ \E i \in LocIds : LocHost(i)
    \/ \E i \in LocIds, q \in QueuePtrs : LocDevice(i, q)
    \/ \E i \in LocIds, j \in LocIds : LocClone(i, j)
    \/ \E i \in LocIds, j \in LocIds : LocCompare(i, j)

----------------------------------------------------------------------------
(* Specifications *)

Init == TensorInit /\ LocInit

Next == TensorNext

\* the Tensor family: a caller creating, reshaping, loading, storing and
\* dropping Tensors
Spec == Init /\ [][Next]_vars

\* a caller building, cloning and comparing Locations
SpecLoc == Init /\ [][LocNext]_vars

----------------------------------------------------------------------------
(* Properties *)

\* what load writes into a destination of product(shape) elements, for
\* Tensor t of the Tensor table ts over the allocations h
LoadOf(h, ts, t) == BufLoad(h[ts[t].buffer].vec, ZeroSlice(Product(ts[t].shape))).dst

LiveIn(ts) == {t \in TensorIds : ts[t].live}
OwnersIn(ts, b) == {t \in LiveIn(ts) : ts[t].buffer = b}
Allocated(h) == {b \in BufferIds : h[b].alloc}

\* C1: copy-on-write isolation.  A store into one Tensor leaves every other
\* live Tensor as it was: same shape, and load returns the same elements as
\* before the store.
C1_Isolation ==
    [][last'.op = "store" =>
        \A u \in Live \ {last'.t} :
            /\ tensors'[u].live
            /\ tensors'[u].shape = tensors[u].shape
            /\ LoadOf(heap', tensors', u) = LoadOf(heap, tensors, u)]_vars

\* a store went through the clone path and the sibling that shared the
\* buffer now loads something else than the writer
C1_Witness ==
    /\ last.op = "store"
    /\ last.cow
    /\ \E u \in Live \ {last.t} :
          /\ Product(tensors[u].shape) = Product(tensors[last.t].shape)
          /\ LoadOf(heap, tensors, u) # LoadOf(heap, tensors, last.t)

\* C2: in every reachable state, every live Tensor's shape has as many
\* elements as the buffer it references (and that buffer is allocated).
C2_ShapeMatchesBuffer ==
    \A t \in Live :
        /\ tensors[t].buffer \in Allocated(heap)
        /\ Product(tensors[t].shape) = BufLen(heap[tensors[t].buffer].vec)

\* a call has failed while Tensors are live
C2_Witness ==
    /\ last.op = "reshape"
    /\ last.res = "Panic"
    /\ Live # {}

\* C3 (as claimed): reshape succeeds iff the products agree, and otherwise
\* returns SizeMismatch to the caller and leaves everything as it was.
C3_ReshapeRecoverable ==
    [][last'.op = "reshape" =>
        IF Product(last'.shape) = Product(tensors[last'.t].shape)
        THEN last'.res = "Ok"
        ELSE /\ last'.res = "SizeMismatch"
             /\ tensors' = tensors
             /\ heap' = heap]_vars

\* C4 (as claimed): a load or store whose slice does not have
\* product(shape) elements modifies nothing: not the Tensors, not the
\* buffers or their sharing, and (for load) not the destination; and a load
\* never changes a Tensor or a buffer.
C4_MismatchModifiesNothing ==
    [][/\ (last'.op = "store" /\ Len(last'.src) # Product(tensors[last'.t].shape)) =>
            /\ tensors' = tensors
            /\ heap' = heap
       /\ last'.op = "load" =>
            /\ tensors' = tensors
            /\ heap' = heap
            /\ Len(last'.dst) # Product(tensors[last'.t].shape) =>
                  last'.dst = ZeroSlice(Len(last'.dst))]_vars

\* C5: store/load round trip.  (a) a store of c with product(shape) elements
\* makes the Tensor load c, whether or not its buffer was shared; (b) until
\* the next store into it, no call changes what a live Tensor loads; (c) a
\* load into a destination of product(shape) elements returns just that.
C5_RoundTrip ==
    [][/\ (last'.op = "store" /\ Len(last'.src) = Product(tensors[last'.t].shape)) =>
            LoadOf(heap', tensors', last'.t) = last'.src
       /\ \/ (tensors' = tensors /\ heap' = heap)
          \/ \A t \in Live :
                (tensors'[t].live /\ ~(last'.op = "store" /\ last'.t = t)) =>
                    LoadOf(heap', tensors', t) = LoadOf(heap, tensors, t)
       /\ (last'.op = "load" /\ Len(last'.dst) = Product(tensors[last'.t].shape)) =>
            last'.dst = LoadOf(heap, tensors, last'.t)]_vars

\* a store into a shared buffer has just written something other than
\* zeros, and the writer loads other elements than its former sibling
C5_Witness ==
    /\ last.op = "store"
    /\ last.cow
    /\ LoadOf(heap, tensors, last.t) # ZeroSlice(Product(tensors[last.t].shape))
    /\ \E u \in Live \ {last.t} :
          LoadOf(heap, tensors, u) = ZeroSlice(Product(tensors[last.t].shape))

\* C6: new_filled(S, v) returns a Tensor of shape S that loads product(S)
\* copies of v; new_zeroed(S) returns one that loads product(S) zeros.
C6_Filled ==
    /\ last.op = "new_filled" =>
          /\ last.res = "Ok"
          /\ tensors[last.u].live
          /\ tensors[last.u].shape = last.shape
          /\ LoadOf(heap, tensors, last.u) = [i \in 1 .. Product(last.shape) |-> last.v]
    /\ last.op = "new_zeroed" =>
          /\ last.res = "Ok"
          /\ tensors[last.u].live
          /\ tensors[last.u].shape = last.shape
          /\ LoadOf(heap, tensors, last.u) = [i \in 1 .. Product(last.shape) |-> Zero]

\* new_filled has returned a non-empty Tensor filled with a value other
\* than zero
C6_Witness ==
    /\ last.op = "new_filled"
    /\ last.res = "Ok"
    /\ Product(tensors[last.u].shape) = MaxLen
    /\ last.v # Zero
    /\ LoadOf(heap, tensors, last.u) = [i \in 1 .. MaxLen |-> last.v]

\* C7: a successful reshape copies nothing.  The new Tensor references the
\* receiver's allocation, whose strong count grows by one and whose
\* elements stay; no allocation appears or disappears; the receiver and all
\* other Tensors stay as they were.
C7_ReshapeShares ==
    [][(last'.op = "reshape" /\ last'.res = "Ok") =>
        LET t == last'.t
            u == last'.u
            b == tensors[t].buffer
        IN /\ ~tensors[u].live
           /\ tensors'[u].live
           /\ tensors'[u].buffer = b
           /\ heap'[b].strong = heap[b].strong + 1
           /\ heap'[b].vec = heap[b].vec
           /\ Allocated(heap') = Allocated(heap)
           /\ \A c \in BufferIds \ {b} : heap'[c] = heap[c]
           /\ \A w \in TensorIds \ {u} : tensors'[w] = tensors[w]]_vars

\* reshape has returned a Tensor of another shape over the same allocation
C7_Witness ==
    /\ last.op = "reshape"
    /\ last.res = "Ok"
    /\ tensors[last.u].shape # tensors[last.t].shape
    /\ tensors[last.u].buffer = tensors[last.t].buffer
    /\ heap[tensors[last.t].buffer].strong >= 2

\* C8: Location equality is by queue identity.  Host equals Host, Host
\* never equals a Device location in either order, two Device locations
\* are equal iff they point to the same queue; the relation is reflexive,
\* symmetric and transitive; and a comparison returns that relation.
C8_LocationEquality ==
    /\ \A i \in HeldLocs, j \in HeldLocs :
          LET a == locs[i]
              b == locs[j]
          IN /\ (a.tag = "Host" /\ b.tag = "Host") => LocEq(a, b)
             /\ (a.tag = "Host" /\ b.tag = "Device") => (~LocEq(a, b) /\ ~LocEq(b, a))
             /\ (a.tag = "Device" /\ b.tag = "Device") => (LocEq(a, b) <=> a.ptr = b.ptr)
             /\ LocEq(a, a)
             /\ LocEq(a, b) <=> LocEq(b, a)
             /\ \A k \in HeldLocs : (LocEq(a, b) /\ LocEq(b, locs[k])) => LocEq(a, locs[k])
    /\ cmp.a # 0 =>
          cmp.eq = (locs[cmp.a].tag = locs[cmp.b].tag /\ locs[cmp.a].ptr = locs[cmp.b].ptr)

\* a Host location is held, and two Device locations of different queues
\* have just compared unequal
C8_Witness ==
    /\ \E i \in HeldLocs : locs[i].tag = "Host"
    /\ cmp.a # 0
    /\ cmp.a # cmp.b
    /\ locs[cmp.a].tag = "Device"
    /\ locs[cmp.b].tag = "Device"
    /\ locs[cmp.a].ptr # locs[cmp.b].ptr
    /\ ~cmp.eq

\* C9: store clones iff the buffer is referenced by more than one Tensor.
\* Shared: the writer moves to an allocation that was free, has the same
\* length and is referenced by the writer alone, and the old one keeps its
\* elements and loses exactly one owner.  Not shared: the writer stays on its
\* allocation and no allocation appears.  A store of product(shape) elements
\* leaves them in the allocation the writer references afterwards.
C9_CloneIffShared ==
    [][last'.op = "store" =>
        LET t == last'.t
            b == tensors[t].buffer
            n == tensors'[t].buffer
        IN /\ last'.cow <=> Cardinality(Owners(b)) > 1
           /\ last'.cow <=> n # b
           /\ IF Cardinality(Owners(b)) > 1
              THEN /\ n \notin Allocated(heap)
                   /\ Allocated(heap') = Allocated(heap) \cup {n}
                   /\ BufLen(heap'[n].vec) = BufLen(heap[b].vec)
                   /\ heap'[n].strong = 1
                   /\ OwnersIn(tensors', n) = {t}
                   /\ heap'[b].vec = heap[b].vec
                   /\ heap'[b].strong = heap[b].strong - 1
              ELSE /\ Allocated(heap') = Allocated(heap)
                   /\ heap'[b].strong = heap[b].strong
           /\ Len(last'.src) = Product(tensors[t].shape) => heap'[n].vec = last'.src]_vars

\* a store has cloned a shared buffer and left the old one to its sibling
C9_Witness ==
    /\ last.op = "store"
    /\ last.cow
    /\ heap[tensors[last.t].buffer].strong = 1
    /\ Cardinality(Allocated(heap)) >= 2

\* C10: buffer lifetime.  An allocation's strong count is the number of
\* live Tensors referencing it; an allocation exists exactly while some
\* live Tensor references it, so none is released early and none is left
\* once its last Tensor is gone.
C10_BufferLifetime ==
    \A b \in BufferIds :
        /\ heap[b].strong = Cardinality(Owners(b))
        /\ heap[b].alloc <=> Owners(b) # {}
        /\ ~heap[b].alloc => heap[b] = FreeCell

\* the last Tensor has been dropped and no allocation is left
C10_Witness ==
    /\ last.op = "drop"
    /\ Live = {}
    /\ Allocated(heap) = {}

====
